---- MODULE Spec2Model ----
(***************************************************************************)
(* Lambda debug mode configuration: the loader                             *)
(* load_lambda_debug_mode_config of lambda_debug_mode_config.py as a state *)
(* machine (parse, bind, validate), with its helpers as operators.         *)
(*                                                                         *)
(* A Python str is a sequence of one-character strings.  A YAML node is a  *)
(* record with a tag; a mapping node carries its list of (key node, value  *)
(* node) pairs in document order.  A Python value is a record with its     *)
(* type name; a dict is the sequence of its (key, value) items in          *)
(* insertion order.                                                        *)
(***************************************************************************)
EXTENDS FiniteSets, Integers, Sequences, TLC

VARIABLES
    yaml_string,      \* the argument of load_lambda_debug_mode_config
    pc,               \* position in load_lambda_debug_mode_config
    yaml_data,        \* the object yaml.load built, or None
    config_functions, \* config.functions: the dict the validator rewrites
    lambda_arns,      \* list(config_functions.keys()), taken once
    arn_index,        \* position of the first loop in lambda_arns
    ports_used,       \* validation_state.ports_used
    port_index,       \* position of the second loop in config_functions
    returned,         \* what the call handed back to its caller
    error_log,        \* the LOG.error lines, oldest first
    stages_run,       \* the stages of the pipeline that were entered
    lambda_arn,       \* argument of _to_qualified_lambda_function_arn
    qualified_once,   \* its result
    qualified_twice   \* the result of applying it to its own result

vars == <<yaml_string, pc, yaml_data, config_functions, lambda_arns, arn_index,
          ports_used, port_index, returned, error_log, stages_run,
          lambda_arn, qualified_once, qualified_twice>>

(***************************************************************************)
(* Bounds of the model.                                                    *)
(***************************************************************************)
\* longest identifier string given to _to_qualified_lambda_function_arn alone
MaxArnLen == 8
\* most key/value pairs at the top level of a document
MaxTopPairs == 2
\* most key/value pairs below the functions key of a document of any shape
MaxPairs == 4
\* most entries of the functions map of a well-formed document
MaxEntries == 4

(***************************************************************************)
(* Python strings.                                                         *)
(***************************************************************************)
RECURSIVE split(_, _)
\* str.split(sep) for a one-character sep: the segments between the
\* occurrences of sep, read off the string from its first character on
split(s, sep) ==
    IF s = <<>> THEN << <<>> >>
    ELSE LET rest == split(Tail(s), sep) IN
         IF Head(s) = sep THEN << <<>> >> \o rest
         ELSE << <<Head(s)>> \o rest[1] >> \o Tail(rest)

\* ":$LATEST", the tail the normalizer appends
ArnTail == <<":", "$", "L", "A", "T", "E", "S", "T">>

\* the segment count of a qualified identifier
QualifiedPartsLen == 8
\* the segment count of a structurally unqualified identifier
UnqualifiedPartsLen == 7

\* mutation: an identifier is never given its qualifier
NeverQualified(arn) == arn

\* mutation: the empty-qualifier test is dropped, and so is the 7-segment test
QualifiesShortArns(arn) ==
    IF arn = <<>> THEN arn
    ELSE IF Len(split(arn, ":")) >= QualifiedPartsLen THEN arn
    ELSE arn \o ArnTail

_to_qualified_lambda_function_arn(arn) ==
    IF arn = <<>> THEN arn
    ELSE LET lambda_arn_parts == split(arn, ":")
             lambda_arn_parts_len == Len(lambda_arn_parts)
             is_qualified == lambda_arn_parts_len = QualifiedPartsLen
             is_unqualified == lambda_arn_parts_len = UnqualifiedPartsLen
         IN  IF is_qualified /\ lambda_arn_parts[lambda_arn_parts_len] # <<>>
             THEN arn
             ELSE IF ~is_unqualified THEN arn
             ELSE arn \o ArnTail

(***************************************************************************)
(* YAML nodes, as the composer hands them to the constructor.              *)
(***************************************************************************)
NullNode == [tag |-> "null"]
BoolNode(b) == [tag |-> "bool", bool |-> b]
IntNode(i) == [tag |-> "int", int |-> i]
StrNode(s) == [tag |-> "str", str |-> s]
SeqNode(items) == [tag |-> "seq", items |-> items]
\* MappingNode: value is the list of (key_node, value_node)
MapNode(value) == [tag |-> "map", value |-> value]

\* The text itself, where it holds no node: text the scanner or the parser
\* rejects, the empty string, and text of white space only.
MalformedText == [tag |-> "malformed"]
EmptyText == [tag |-> "empty"]
BlankText == [tag |-> "blank"]

(***************************************************************************)
(* Python values.                                                          *)
(***************************************************************************)
PyNone == [type |-> "NoneType"]
PyBool(b) == [type |-> "bool", b |-> b]
PyInt(i) == [type |-> "int", i |-> i]
PyStr(s) == [type |-> "str", s |-> s]
PyList(l) == [type |-> "list", l |-> l]
PyDict(d) == [type |-> "dict", d |-> d]

\* hash(v) succeeds
Hashable(v) == v.type \notin {"list", "dict"}

\* mutation: the test "if not yaml_data" is missing
AlwaysTruthy(v) == TRUE

\* bool(v)
Truthy(v) ==
    CASE v.type = "NoneType" -> FALSE
      [] v.type = "bool" -> v.b
      [] v.type = "int" -> v.i # 0
      [] v.type = "str" -> v.s # <<>>
      [] v.type = "list" -> v.l # <<>>
      [] v.type = "dict" -> v.d # <<>>

\* a dict as the sequence of its items: lookup, keys, pop, store
DictKeys(d) == [i \in 1..Len(d) |-> d[i][1]]
DictHas(d, k) == \E i \in 1..Len(d) : d[i][1] = k
DictGet(d, k) == d[CHOOSE i \in 1..Len(d) : d[i][1] = k][2]
DictPop(d, k) == SelectSeq(d, LAMBDA item : item[1] # k)
\* d[k] = v: a present key keeps its place, a new key goes last
DictSet(d, k, v) ==
    IF DictHas(d, k)
    THEN [i \in 1..Len(d) |-> IF d[i][1] = k THEN <<k, v>> ELSE d[i]]
    ELSE Append(d, <<k, v>>)

(***************************************************************************)
(* The outcome of a call: a value, or the exception it raised.             *)
(***************************************************************************)
Value(v) == [exc |-> "none", val |-> v]
Raise(e, about) == [exc |-> e, about |-> about]

(***************************************************************************)
(* _SafeLoaderWithDuplicateCheck: the constructor.  Sequence nodes of the  *)
(* model hold scalars only, so that building their items cannot fail.      *)
(***************************************************************************)
RECURSIVE construct_object(_)
RECURSIVE ConstructMappingFrom(_, _, _)

\* the loop of _construct_mappings_with_duplicate_check from its i-th pair on
ConstructMappingFrom(value, i, mapping) ==
    IF i > Len(value) THEN Value(PyDict(mapping))
    ELSE LET key == construct_object(value[i][1]) IN
         IF key.exc # "none" THEN key
         \* key in mapping hashes the key
         ELSE IF ~Hashable(key.val) THEN Raise("TypeError", key.val)
         ELSE IF DictHas(mapping, key.val)
              THEN Raise("MarkedYAMLError", key.val)
         ELSE LET val == construct_object(value[i][2]) IN
              IF val.exc # "none" THEN val
              ELSE ConstructMappingFrom(value, i + 1,
                                        DictSet(mapping, key.val, val.val))

_construct_mappings_with_duplicate_check(node) ==
    ConstructMappingFrom(node.value, 1, <<>>)

construct_object(node) ==
    CASE node.tag = "null" -> Value(PyNone)
      [] node.tag = "bool" -> Value(PyBool(node.bool))
      [] node.tag = "int" -> Value(PyInt(node.int))
      [] node.tag = "str" -> Value(PyStr(node.str))
      [] node.tag = "seq" ->
            Value(PyList([i \in 1..Len(node.items) |->
                              construct_object(node.items[i]).val]))
      [] node.tag = "map" -> _construct_mappings_with_duplicate_check(node)

\* yaml.load(yaml_string, _SafeLoaderWithDuplicateCheck)
yaml_load(text) ==
    CASE text.tag = "malformed" -> Raise("YAMLError", PyNone)
      [] text.tag \in {"empty", "blank"} -> Value(PyNone)
      [] OTHER -> construct_object(text)

(***************************************************************************)
(* The schema: LambdaDebugConfig and LambdaDebugModeConfig, and what       *)
(* building them from the parsed object does.                              *)
(***************************************************************************)
\* the field names of the schema, as Python strings
FunctionsField == <<"f", "u", "n", "c", "t", "i", "o", "n", "s">>
DebugPortAlias == <<"d", "e", "b", "u", "g", "-", "p", "o", "r", "t">>
TimeoutDisableAlias ==
    <<"t", "i", "m", "e", "o", "u", "t", "-", "d", "i", "s", "a", "b", "l", "e">>

\* one entry of ValidationError.errors(): the place that failed to bind
ErrorAt(arn, field) == [arn |-> arn, field |-> field]

\* debug_port: Optional[int] = Field(None, alias="debug-port")
DebugPortField(d) ==
    IF ~DictHas(d, PyStr(DebugPortAlias)) THEN Value(PyNone)
    ELSE LET v == DictGet(d, PyStr(DebugPortAlias)) IN
         IF v.type \in {"NoneType", "int"} THEN Value(v)
         ELSE Raise("ValidationError", {"debug-port"})

\* timeout_disable: bool = Field(False, alias="timeout-disable")
TimeoutDisableField(d) ==
    IF ~DictHas(d, PyStr(TimeoutDisableAlias)) THEN Value(FALSE)
    ELSE LET v == DictGet(d, PyStr(TimeoutDisableAlias)) IN
         IF v.type = "bool" THEN Value(v.b)
         ELSE Raise("ValidationError", {"timeout-disable"})

\* LambdaDebugConfig built from the value of one entry of functions: the
\* model instance, or the set of fields that failed
LambdaDebugConfig(v) ==
    IF v.type # "dict" THEN Raise("ValidationError", {"LambdaDebugConfig"})
    ELSE LET port == DebugPortField(v.d)
             timeout == TimeoutDisableField(v.d)
         IN  IF port.exc = "none" /\ timeout.exc = "none"
             THEN Value([debug_port |-> port.val, timeout_disable |-> timeout.val])
             ELSE Raise("ValidationError",
                        (IF port.exc = "none" THEN {} ELSE port.about)
                            \cup (IF timeout.exc = "none" THEN {} ELSE timeout.about))

\* functions: dict[Arn, LambdaDebugConfig], every failure collected
FunctionsField_errors(d) ==
    UNION {LET key == d[i][1]
               entry == LambdaDebugConfig(d[i][2])
           IN  (IF key.type = "str" THEN {} ELSE {ErrorAt(key, "[key]")})
                   \cup (IF entry.exc = "none" THEN {}
                         ELSE {ErrorAt(key, f) : f \in entry.about})
           : i \in 1..Len(d)}

\* LambdaDebugModeConfig(**data): the model instance (its functions dict, keyed
\* by the Arn strings), a ValidationError with every field that failed, or the
\* TypeError of a call whose ** argument is no mapping with string keys
LambdaDebugModeConfig(data) ==
    IF data.type # "dict" THEN Raise("TypeError", data)
    ELSE IF \E i \in 1..Len(data.d) : data.d[i][1].type # "str"
         THEN Raise("TypeError", data)
    ELSE IF ~DictHas(data.d, PyStr(FunctionsField))
         THEN Raise("ValidationError", {ErrorAt(PyNone, "functions")})
    ELSE LET functions == DictGet(data.d, PyStr(FunctionsField)) IN
         IF functions.type # "dict"
         THEN Raise("ValidationError", {ErrorAt(PyNone, "functions")})
         ELSE IF FunctionsField_errors(functions.d) # {}
              THEN Raise("ValidationError", FunctionsField_errors(functions.d))
         ELSE Value([i \in 1..Len(functions.d) |->
                        <<functions.d[i][1].s,
                          LambdaDebugConfig(functions.d[i][2]).val>>])

(***************************************************************************)
(* The validator, one loop iteration at a time.                            *)
(***************************************************************************)
\* mutation: the entry is stored under its qualified key and left under the
\* key it had
RekeyWithoutPop(functions, arn, qualified_lambda_arn) ==
    DictSet(functions, qualified_lambda_arn, DictGet(functions, arn))

\* config_functions[qualified_lambda_arn] = config_functions.pop(lambda_arn)
Rekey(functions, arn, qualified_lambda_arn) ==
    DictSet(DictPop(functions, arn), qualified_lambda_arn, DictGet(functions, arn))

\* mutation: the qualified key is stored without the lookup for a collision
NormalizeUnchecked(functions, arn) ==
    LET qualified_lambda_arn == _to_qualified_lambda_function_arn(arn) IN
    IF arn # qualified_lambda_arn
    THEN Value(Rekey(functions, arn, qualified_lambda_arn))
    ELSE Value(functions)

\* the body of the first loop of _validate_lambda_debug_mode_config
NormalizeArn(functions, arn) ==
    LET qualified_lambda_arn == _to_qualified_lambda_function_arn(arn) IN
    IF arn # qualified_lambda_arn
    THEN IF DictHas(functions, qualified_lambda_arn)
         THEN Raise("DuplicateLambdaDebugConfig", <<arn, qualified_lambda_arn>>)
         ELSE Value(Rekey(functions, arn, qualified_lambda_arn))
    ELSE Value(functions)

\* mutation: the port is checked and never recorded
PortNeverRecorded(ports, lambda_debug_config) ==
    LET debug_port == lambda_debug_config.debug_port IN
    IF debug_port.type = "NoneType" THEN Value(ports)
    ELSE IF debug_port.i \in ports THEN Raise("PortAlreadyInUse", debug_port.i)
    ELSE Value(ports)

\* mutation: the port replaces the recorded set instead of joining it
PortReplacesRecorded(ports, lambda_debug_config) ==
    LET debug_port == lambda_debug_config.debug_port IN
    IF debug_port.type = "NoneType" THEN Value(ports)
    ELSE IF debug_port.i \in ports THEN Raise("PortAlreadyInUse", debug_port.i)
    ELSE Value({debug_port.i})

\* ports is validation_state.ports_used; the value is ports_used afterwards
_validate_lambda_debug_config(ports, lambda_debug_config) ==
    LET debug_port == lambda_debug_config.debug_port IN
    IF debug_port.type = "NoneType" THEN Value(ports)
    ELSE IF debug_port.i \in ports THEN Raise("PortAlreadyInUse", debug_port.i)
    ELSE Value(ports \cup {debug_port.i})

\* mutation: the two loops of the validator in the other order
PortsLoopFirst(at) ==
    CASE at = "validate" -> "ports"
      [] at = "ports" -> "normalize"
      [] at = "normalize" -> "return"

\* the statements of _validate_lambda_debug_mode_config in order: the loop
\* over lambda_arns, then the loop over config_functions.items()
NextLoop(at) ==
    CASE at = "validate" -> "normalize"
      [] at = "normalize" -> "ports"
      [] at = "ports" -> "return"

RECURSIVE NormalizeFrom(_, _, _)
\* the first loop from position i of arns on
NormalizeFrom(functions, arns, i) ==
    IF i > Len(arns) THEN Value(functions)
    ELSE LET r == NormalizeArn(functions, arns[i]) IN
         IF r.exc # "none" THEN r ELSE NormalizeFrom(r.val, arns, i + 1)

RECURSIVE PortsFrom(_, _, _)
\* the second loop from position i of the items on
PortsFrom(functions, ports, i) ==
    IF i > Len(functions) THEN Value(functions)
    ELSE LET r == _validate_lambda_debug_config(ports, functions[i][2]) IN
         IF r.exc # "none" THEN r ELSE PortsFrom(functions, r.val, i + 1)

\* validate_lambda_debug_mode_config(config) as one call: the rewritten
\* functions dict, or the exception raised
validate_lambda_debug_mode_config(functions) ==
    LET r == NormalizeFrom(functions, DictKeys(functions), 1) IN
    IF r.exc # "none" THEN r ELSE PortsFrom(r.val, {}, 1)

(***************************************************************************)
(* load_lambda_debug_mode_config, step by step.                            *)
(***************************************************************************)
Pending == [kind |-> "pending"]
ReturnedNone == [kind |-> "None"]
ReturnedConfig(functions) == [kind |-> "config", functions |-> functions]
\* the exception left the call uncaught
Raised(exc) == [kind |-> "raised", exc |-> exc]

\* one LOG.error line: the stage that wrote it and the exception it reports
LogLine(stage, r) == [stage |-> stage, exc |-> r.exc, about |-> r.about]

\* lines 166-175: yaml.load under except yaml.YAMLError, then "if not yaml_data"
ParseYaml ==
    /\ pc = "parse"
    /\ stages_run' = stages_run \cup {"parse"}
    /\ LET r == yaml_load(yaml_string) IN
       IF r.exc \in {"YAMLError", "MarkedYAMLError"}
       THEN /\ error_log' = Append(error_log, LogLine("parse", r))
            /\ yaml_data' = PyNone
            /\ returned' = ReturnedNone
            /\ pc' = "done"
       ELSE IF r.exc # "none"
       THEN /\ returned' = Raised(r.exc)
            /\ pc' = "done"
            /\ UNCHANGED <<error_log, yaml_data>>
       ELSE /\ yaml_data' = r.val
            /\ returned' = IF Truthy(r.val) THEN returned ELSE ReturnedNone
            /\ pc' = IF Truthy(r.val) THEN "bind" ELSE "done"
            /\ UNCHANGED error_log
    /\ UNCHANGED <<yaml_string, config_functions, lambda_arns, arn_index,
                   ports_used, port_index, lambda_arn, qualified_once,
                   qualified_twice>>

\* lines 177-189: LambdaDebugModeConfig(**yaml_data) under except ValidationError
BuildConfig ==
    /\ pc = "bind"
    /\ stages_run' = stages_run \cup {"bind"}
    /\ LET r == LambdaDebugModeConfig(yaml_data) IN
       IF r.exc = "ValidationError"
       THEN /\ error_log' = Append(error_log, LogLine("bind", r))
            /\ returned' = ReturnedNone
            /\ pc' = "done"
            /\ UNCHANGED config_functions
       ELSE IF r.exc # "none"
       THEN /\ returned' = Raised(r.exc)
            /\ pc' = "done"
            /\ UNCHANGED <<error_log, config_functions>>
       ELSE /\ config_functions' = r.val
            /\ pc' = "validate"
            /\ UNCHANGED <<error_log, returned>>
    /\ UNCHANGED <<yaml_string, yaml_data, lambda_arns, arn_index, ports_used,
                   port_index, lambda_arn, qualified_once, qualified_twice>>

\* lines 193, 102-112: the call of the validator with a fresh validation state
EnterValidate ==
    /\ pc = "validate"
    /\ stages_run' = stages_run \cup {"validate"}
    /\ ports_used' = {}
    /\ lambda_arns' = DictKeys(config_functions)
    /\ arn_index' = 1
    /\ port_index' = 1
    /\ pc' = NextLoop("validate")
    /\ UNCHANGED <<yaml_string, yaml_data, config_functions, returned,
                   error_log, lambda_arn, qualified_once, qualified_twice>>

\* lines 113-121, and 194-196 when the iteration raises
NormalizeNext ==
    /\ pc = "normalize"
    /\ arn_index <= Len(lambda_arns)
    /\ LET r == NormalizeArn(config_functions, lambda_arns[arn_index]) IN
       IF r.exc # "none"
       THEN /\ error_log' = Append(error_log, LogLine("validate", r))
            /\ returned' = ReturnedNone
            /\ pc' = "done"
            /\ UNCHANGED <<config_functions, arn_index>>
       ELSE /\ config_functions' = r.val
            /\ arn_index' = arn_index + 1
            /\ UNCHANGED <<error_log, returned, pc>>
    /\ UNCHANGED <<yaml_string, yaml_data, lambda_arns, ports_used, port_index,
                   stages_run, lambda_arn, qualified_once, qualified_twice>>

\* line 113: lambda_arns is exhausted
NormalizeEnd ==
    /\ pc = "normalize"
    /\ arn_index > Len(lambda_arns)
    /\ pc' = NextLoop("normalize")
    /\ UNCHANGED <<yaml_string, yaml_data, config_functions, lambda_arns,
                   arn_index, ports_used, port_index, returned, error_log,
                   stages_run, lambda_arn, qualified_once, qualified_twice>>

\* lines 123-126 with 154-162, and 194-196 when the iteration raises
CheckPortNext ==
    /\ pc = "ports"
    /\ port_index <= Len(config_functions)
    /\ LET r == _validate_lambda_debug_config(ports_used,
                                              config_functions[port_index][2]) IN
       IF r.exc # "none"
       THEN /\ error_log' = Append(error_log, LogLine("validate", r))
            /\ returned' = ReturnedNone
            /\ pc' = "done"
            /\ UNCHANGED <<ports_used, port_index>>
       ELSE /\ ports_used' = r.val
            /\ port_index' = port_index + 1
            /\ UNCHANGED <<error_log, returned, pc>>
    /\ UNCHANGED <<yaml_string, yaml_data, config_functions, lambda_arns,
                   arn_index, stages_run, lambda_arn, qualified_once,
                   qualified_twice>>

\* line 123: the items are exhausted
CheckPortEnd ==
    /\ pc = "ports"
    /\ port_index > Len(config_functions)
    /\ pc' = NextLoop("ports")
    /\ UNCHANGED <<yaml_string, yaml_data, config_functions, lambda_arns,
                   arn_index, ports_used, port_index, returned, error_log,
                   stages_run, lambda_arn, qualified_once, qualified_twice>>

\* line 198: return config
ReturnConfig ==
    /\ pc = "return"
    /\ returned' = ReturnedConfig(config_functions)
    /\ pc' = "done"
    /\ UNCHANGED <<yaml_string, yaml_data, config_functions, lambda_arns,
                   arn_index, ports_used, port_index, error_log, stages_run,
                   lambda_arn, qualified_once, qualified_twice>>

Next ==
    \/ ParseYaml
    \/ BuildConfig
    \/ EnterValidate
    \/ NormalizeNext
    \/ NormalizeEnd
    \/ CheckPortNext
    \/ CheckPortEnd
    \/ ReturnConfig

(***************************************************************************)
(* The documents the loader is given.                                      *)
(***************************************************************************)
\* "a:a:a:a:a:a:" followed by a function name: 7 segments
ArnOf(name) ==
    <<"a", ":", "a", ":", "a", ":", "a", ":", "a", ":", "a", ":">> \o name
UnqualifiedF == ArnOf(<<"f">>)
UnqualifiedG == ArnOf(<<"g">>)
LatestF == UnqualifiedF \o ArnTail
LatestG == UnqualifiedG \o ArnTail
\* 8 segments, the last one empty
EmptyQualifierF == UnqualifiedF \o <<":">>

\* a key no dict can hold: the flow sequence [a]
UnhashableKey == SeqNode(<<StrNode(<<"a">>)>>)
\* a node whose construction raises TypeError: { [a]: null }
Poison == MapNode(<< <<UnhashableKey, NullNode>> >>)

FunctionsKey == StrNode(FunctionsField)
DebugPortKey == StrNode(DebugPortAlias)
TimeoutDisableKey == StrNode(TimeoutDisableAlias)

\* the pairs a per-function record of any shape is made of
FieldPairs ==
    { <<DebugPortKey, IntNode(1)>>,
      <<DebugPortKey, NullNode>>,
      <<DebugPortKey, Poison>>,
      <<TimeoutDisableKey, BoolNode(TRUE)>>,
      <<TimeoutDisableKey, StrNode(<<"b", "a", "d">>)>>,
      <<UnhashableKey, NullNode>> }

\* the keys of a functions map of any shape
ShapeKeys == {StrNode(UnqualifiedF), StrNode(LatestG), UnhashableKey}

RECURSIVE SumTo(_, _)
\* sizes[1] + ... + sizes[n]
SumTo(sizes, n) == IF n = 0 THEN 0 ELSE sizes[n] + SumTo(sizes, n - 1)

\* the document { functions: ... } whose i-th entry has the key keys[i] and a
\* record of sizes[i] pairs, taken in order from fields; a record without
\* pairs is null where nulls[i] holds, and {} otherwise
ShapeDocument(keys, sizes, nulls, fields) ==
    MapNode(<< <<FunctionsKey,
                 MapNode([i \in 1..Len(keys) |->
                     <<keys[i],
                       IF sizes[i] = 0
                       THEN IF nulls[i] THEN NullNode ELSE MapNode(<<>>)
                       ELSE MapNode([j \in 1..sizes[i] |->
                                fields[SumTo(sizes, i - 1) + j]])>>])>> >>)

\* yaml_string is a document { functions: ... } of any shape with up to
\* MaxPairs pairs below the key, an entry counting as one pair plus the pairs
\* of its record
InitShapeDocument ==
    \E m \in 0..MaxPairs :
        \E keys \in [1..m -> ShapeKeys], sizes \in [1..m -> 0..MaxPairs] :
            /\ m + SumTo(sizes, m) <= MaxPairs
            /\ \E nulls \in [1..m -> BOOLEAN],
                  fields \in [1..SumTo(sizes, m) -> FieldPairs] :
                  /\ \A i \in 1..m : nulls[i] => sizes[i] = 0
                  /\ yaml_string = ShapeDocument(keys, sizes, nulls, fields)

\* the pairs a top-level mapping of any shape is made of
TopPairs ==
    { <<FunctionsKey, NullNode>>,
      <<FunctionsKey, Poison>>,
      <<FunctionsKey, MapNode(<< <<StrNode(UnqualifiedF), MapNode(<<>>)>> >>)>>,
      <<StrNode(<<"o">>), NullNode>>,
      <<IntNode(1), NullNode>>,
      <<UnhashableKey, NullNode>> }

RECURSIVE TopLists(_)
TopLists(n) ==
    IF n = 0 THEN {<<>>}
    ELSE {<<p>> \o l : p \in TopPairs, l \in TopLists(n - 1)}

RECURSIVE TopMappingsUpTo(_)
TopMappingsUpTo(n) ==
    {MapNode(l) : l \in TopLists(n)}
        \cup (IF n = 0 THEN {} ELSE TopMappingsUpTo(n - 1))

\* texts without a mapping at the top, and the top-level mappings of any shape
TopDocuments ==
    { MalformedText, EmptyText, BlankText, NullNode, BoolNode(FALSE),
      IntNode(0), IntNode(42), StrNode(<<>>), StrNode(<<"a">>),
      SeqNode(<<>>), SeqNode(<<IntNode(1)>>) }
        \cup TopMappingsUpTo(MaxTopPairs)

\* the identifiers and the records of a well-formed document
WellFormedArns ==
    {UnqualifiedF, LatestF, UnqualifiedG, LatestG, EmptyQualifierF}
PortRecords ==
    { MapNode(<< <<DebugPortKey, IntNode(1)>> >>),
      MapNode(<< <<DebugPortKey, IntNode(2)>> >>),
      MapNode(<< <<DebugPortKey, NullNode>> >>) }

\* yaml_string is a document { functions: ... } that parses and binds, with up
\* to MaxEntries entries under distinct identifiers
InitWellFormedDocument ==
    \E n \in 0..MaxEntries :
        \E arns \in [1..n -> WellFormedArns], records \in [1..n -> PortRecords] :
            /\ \A i, j \in 1..n : i # j => arns[i] # arns[j]
            /\ yaml_string =
                   MapNode(<< <<FunctionsKey,
                                MapNode([i \in 1..n |->
                                    <<StrNode(arns[i]), records[i]>>])>> >>)

Init ==
    /\ \/ yaml_string \in TopDocuments
       \/ InitShapeDocument
       \/ InitWellFormedDocument
    /\ pc = "parse"
    /\ yaml_data = PyNone
    /\ config_functions = <<>>
    /\ lambda_arns = <<>>
    /\ arn_index = 0
    /\ ports_used = {}
    /\ port_index = 0
    /\ returned = Pending
    /\ error_log = <<>>
    /\ stages_run = {}
    /\ lambda_arn = <<>>
    /\ qualified_once = <<>>
    /\ qualified_twice = <<>>

Spec == Init /\ [][Next]_vars

(***************************************************************************)
(* _to_qualified_lambda_function_arn on its own: applied to an identifier, *)
(* then to its own result.                                                 *)
(***************************************************************************)
RECURSIVE StringsOfLen(_)
\* the strings of n characters over ":" and "f"
StringsOfLen(n) ==
    IF n = 0 THEN {<<>>}
    ELSE {<<c>> \o t : c \in {":", "f"}, t \in StringsOfLen(n - 1)}

RECURSIVE StringsUpTo(_)
StringsUpTo(n) ==
    StringsOfLen(n) \cup (IF n = 0 THEN {} ELSE StringsUpTo(n - 1))

ArnStrings == StringsUpTo(MaxArnLen)

InitQualify ==
    /\ lambda_arn \in ArnStrings
    /\ pc = "qualify"
    /\ qualified_once = <<>>
    /\ qualified_twice = <<>>
    /\ yaml_string = EmptyText
    /\ yaml_data = PyNone
    /\ config_functions = <<>>
    /\ lambda_arns = <<>>
    /\ arn_index = 0
    /\ ports_used = {}
    /\ port_index = 0
    /\ returned = Pending
    /\ error_log = <<>>
    /\ stages_run = {}

Qualify ==
    /\ pc = "qualify"
    /\ qualified_once' = _to_qualified_lambda_function_arn(lambda_arn)
    /\ pc' = "requalify"
    /\ UNCHANGED <<yaml_string, yaml_data, config_functions, lambda_arns,
                   arn_index, ports_used, port_index, returned, error_log,
                   stages_run, lambda_arn, qualified_twice>>

Requalify ==
    /\ pc = "requalify"
    /\ qualified_twice' = _to_qualified_lambda_function_arn(qualified_once)
    /\ pc' = "qualified"
    /\ UNCHANGED <<yaml_string, yaml_data, config_functions, lambda_arns,
                   arn_index, ports_used, port_index, returned, error_log,
                   stages_run, lambda_arn, qualified_once>>

NextQualify == Qualify \/ Requalify

SpecQualify == InitQualify /\ [][NextQualify]_vars

(***************************************************************************)
(* What the properties say of a document, read off its nodes.              *)
(***************************************************************************)
\* the number of ":"-delimited segments of an identifier
SegmentCount(s) == Cardinality({i \in 1..Len(s) : s[i] = ":"}) + 1
HasSevenSegments(s) == SegmentCount(s) = 7
\* exactly 8 segments, the last one not empty
InQualifiedForm(s) == SegmentCount(s) = 8 /\ s[Len(s)] # ":"
\* the key an identifier is to be found under after normalization
QualifiedKey(s) == IF HasSevenSegments(s) THEN s \o ArnTail ELSE s

StrKeys(pairs) == \A i \in 1..Len(pairs) : pairs[i][1].tag = "str"
DistinctKeys(pairs) ==
    \A i, j \in 1..Len(pairs) : i # j => pairs[i][1] # pairs[j][1]
HasField(pairs, key) == \E i \in 1..Len(pairs) : pairs[i][1] = key
Field(pairs, key) == pairs[CHOOSE i \in 1..Len(pairs) : pairs[i][1] = key][2]

WellTypedRecord(r) ==
    /\ r.tag = "map"
    /\ StrKeys(r.value)
    /\ DistinctKeys(r.value)
    /\ \A i \in 1..Len(r.value) :
          /\ r.value[i][1] = DebugPortKey => r.value[i][2].tag \in {"int", "null"}
          /\ r.value[i][1] = TimeoutDisableKey => r.value[i][2].tag = "bool"
          /\ r.value[i][2].tag \notin {"map", "seq"}

\* the document is a mapping with a functions map of identifiers to records
\* of the schema, and no mapping of it repeats a key
WellTyped(doc) ==
    /\ doc.tag = "map"
    /\ StrKeys(doc.value)
    /\ DistinctKeys(doc.value)
    /\ HasField(doc.value, FunctionsKey)
    /\ \A i \in 1..Len(doc.value) :
          doc.value[i][1] # FunctionsKey => doc.value[i][2].tag \notin {"map", "seq"}
    /\ LET functions == Field(doc.value, FunctionsKey) IN
          /\ functions.tag = "map"
          /\ StrKeys(functions.value)
          /\ DistinctKeys(functions.value)
          /\ \A i \in 1..Len(functions.value) :
                WellTypedRecord(functions.value[i][2])

\* the (identifier node, record node) pairs of a well-typed document
InputEntries(doc) == Field(doc.value, FunctionsKey).value
InputArn(doc, i) == InputEntries(doc)[i][1].str
\* the settings the record of an entry asks for
InputSettings(r) ==
    [debug_port |->
        IF HasField(r.value, DebugPortKey) /\ Field(r.value, DebugPortKey).tag = "int"
        THEN PyInt(Field(r.value, DebugPortKey).int)
        ELSE PyNone,
     timeout_disable |->
        IF HasField(r.value, TimeoutDisableKey)
        THEN Field(r.value, TimeoutDisableKey).bool
        ELSE FALSE]
InputPort(doc, i) == InputSettings(InputEntries(doc)[i][2]).debug_port

\* the 7-segment identifiers X of the document that has X:$LATEST as a key too
CollidingAt(doc) ==
    {i \in 1..Len(InputEntries(doc)) :
        /\ HasSevenSegments(InputArn(doc, i))
        /\ \E j \in 1..Len(InputEntries(doc)) :
              InputArn(doc, j) = InputArn(doc, i) \o ArnTail}
\* the non-null ports that two entries of the document carry
RepeatedPorts(doc) ==
    {InputPort(doc, i).i :
        i \in {k \in 1..Len(InputEntries(doc)) :
                  /\ InputPort(doc, k).type = "int"
                  /\ \E j \in 1..Len(InputEntries(doc)) :
                        j # k /\ InputPort(doc, j) = InputPort(doc, k)}}

\* the call is over, and it was given a well-typed document
DoneWellTyped == pc = "done" /\ WellTyped(yaml_string)
\* the one error line of a call that failed with exception exc
FailedWith(exc) ==
    /\ returned.kind = "None"
    /\ Len(error_log) = 1
    /\ error_log[1].exc = exc

(***************************************************************************)
(* Properties.                                                             *)
(***************************************************************************)

\* C1: for every input text load_lambda_debug_mode_config ends by returning a
\* config or None; no exception leaves the call, whatever the parsed document
\* is (a scalar, a list, a mapping with keys that are no strings or cannot be
\* hashed).
C1_NoExceptionEscapes ==
    pc = "done" => returned.kind \in {"config", "None"}

\* C7: _to_qualified_lambda_function_arn is idempotent on every identifier; it
\* appends ":$LATEST" exactly when the identifier has 7 segments and returns
\* every other identifier unchanged (the empty string, 8 segments with or
\* without an empty last segment, any other count).
C7_QualifyIdempotent ==
    /\ pc \in {"requalify", "qualified"} =>
          qualified_once =
              IF HasSevenSegments(lambda_arn) THEN lambda_arn \o ArnTail
              ELSE lambda_arn
    /\ pc = "qualified" => qualified_twice = qualified_once

\* C7 witness: a 7-segment identifier was qualified, then qualified again
C7_Witness ==
    /\ pc = "qualified"
    /\ HasSevenSegments(lambda_arn)
    /\ qualified_once # lambda_arn
    /\ InQualifiedForm(qualified_twice)

ReturnedPortsDistinct ==
    returned.kind = "config" =>
        \A i, j \in 1..Len(returned.functions) :
            (/\ i # j
             /\ returned.functions[i][2].debug_port.type = "int"
             /\ returned.functions[j][2].debug_port.type = "int")
            => returned.functions[i][2].debug_port.i
                   # returned.functions[j][2].debug_port.i
\* PortAlreadyInUse is only ever reported for a port two entries carry
PortFailureIsForRepeatedPort ==
    (DoneWellTyped /\ error_log # <<>> /\ error_log[1].exc = "PortAlreadyInUse")
        => error_log[1].about \in RepeatedPorts(yaml_string)

\* C2, as claimed: a returned config has pairwise distinct non-null ports; if
\* two entries of the input carry the same non-null port, the call returns
\* None and the failure is PortAlreadyInUse for that port; null ports never
\* cause the failure.
C2_AsClaimed ==
    /\ ReturnedPortsDistinct
    /\ PortFailureIsForRepeatedPort
    /\ (DoneWellTyped /\ RepeatedPorts(yaml_string) # {}) =>
           FailedWith("PortAlreadyInUse")

\* C2, amended: a returned config has pairwise distinct non-null ports; if two
\* entries of an input that parses and binds carry the same non-null port and
\* no 7-segment identifier X of it has X:$LATEST as a key too, the call returns
\* None and the failure is PortAlreadyInUse for a port that two entries carry;
\* null ports never cause the failure.
C2_RepeatedPortRejected ==
    /\ ReturnedPortsDistinct
    /\ PortFailureIsForRepeatedPort
    /\ (DoneWellTyped /\ RepeatedPorts(yaml_string) # {}
            /\ CollidingAt(yaml_string) = {}) =>
           FailedWith("PortAlreadyInUse")

\* C2 witness: two entries with one port and a third with a null port, no
\* collision, and the call failed on the port
C2_Witness ==
    /\ DoneWellTyped
    /\ RepeatedPorts(yaml_string) # {}
    /\ CollidingAt(yaml_string) = {}
    /\ \E i \in 1..Len(InputEntries(yaml_string)) :
          InputPort(yaml_string, i).type = "NoneType"
    /\ FailedWith("PortAlreadyInUse")

\* the keys of the returned config are the qualified keys of the identifiers
\* of the input, one key for each identifier
ReturnedKeysOneToOne ==
    (DoneWellTyped /\ returned.kind = "config") =>
        /\ Len(returned.functions) = Len(InputEntries(yaml_string))
        /\ \A i, j \in 1..Len(returned.functions) :
              i # j => returned.functions[i][1] # returned.functions[j][1]
        /\ {returned.functions[i][1] : i \in 1..Len(returned.functions)}
               = {QualifiedKey(InputArn(yaml_string, i)) :
                     i \in 1..Len(InputEntries(yaml_string))}

\* C3, as claimed: every key of a returned config is in qualified form (8
\* segments, the last not empty), and no two identifiers of the input were
\* mapped to one key.
C3_AsClaimed ==
    /\ ReturnedKeysOneToOne
    /\ returned.kind = "config" =>
           \A i \in 1..Len(returned.functions) :
               InQualifiedForm(returned.functions[i][1])

\* C3, amended: no key of a returned config has exactly 7 segments: every
\* 7-segment identifier X of the input is found under X:$LATEST, which is in
\* qualified form, every identifier of another shape under itself, whatever
\* its segment count; and no two identifiers of the input were mapped to one
\* key.
C3_KeysNormalized ==
    /\ ReturnedKeysOneToOne
    /\ returned.kind = "config" =>
           \A i \in 1..Len(returned.functions) :
               /\ ~HasSevenSegments(returned.functions[i][1])
               /\ \/ InQualifiedForm(returned.functions[i][1])
                  \/ /\ DoneWellTyped
                     /\ \E j \in 1..Len(InputEntries(yaml_string)) :
                           InputArn(yaml_string, j) = returned.functions[i][1]

\* C3 witness: a returned config with the key of a rewritten 7-segment
\* identifier and a key that is not in qualified form
C3_Witness ==
    /\ DoneWellTyped
    /\ returned.kind = "config"
    /\ \E i \in 1..Len(InputEntries(yaml_string)) :
          /\ HasSevenSegments(InputArn(yaml_string, i))
          /\ DictHas(returned.functions, InputArn(yaml_string, i) \o ArnTail)
    /\ \E i \in 1..Len(returned.functions) :
          ~InQualifiedForm(returned.functions[i][1])

\* the call failed with DuplicateLambdaDebugConfig naming the identifier of
\* entry i of the input and its qualified form
FailedWithDuplicateOf(i) ==
    /\ FailedWith("DuplicateLambdaDebugConfig")
    /\ error_log[1].about
           = <<InputArn(yaml_string, i), InputArn(yaml_string, i) \o ArnTail>>

\* C4, as claimed: if the input has a 7-segment identifier X and X:$LATEST as
\* keys, the call returns None with DuplicateLambdaDebugConfig naming X and
\* X:$LATEST, whichever comes first and whatever other entries there are.
C4_AsClaimed ==
    DoneWellTyped =>
        \A i \in CollidingAt(yaml_string) : FailedWithDuplicateOf(i)

\* C4, amended: if the input has a 7-segment identifier X and X:$LATEST as
\* keys, the call returns None with DuplicateLambdaDebugConfig, whichever of
\* the two comes first and whatever other entries there are; the failure names
\* the first 7-segment identifier of the map whose qualified form is a key too,
\* which is X unless another such identifier comes before X.  No config is
\* returned, so no entry is overwritten or dropped.
C4_FirstCollisionReported ==
    (DoneWellTyped /\ CollidingAt(yaml_string) # {}) =>
        FailedWithDuplicateOf(
            CHOOSE i \in CollidingAt(yaml_string) :
                \A j \in CollidingAt(yaml_string) : i <= j)

\* C4 witness: X:$LATEST comes before X, other entries are present, and the
\* call failed naming X
C4_Witness ==
    /\ DoneWellTyped
    /\ Len(InputEntries(yaml_string)) >= 3
    /\ \E i \in CollidingAt(yaml_string) :
          /\ FailedWithDuplicateOf(i)
          /\ \E j \in 1..(i - 1) :
                InputArn(yaml_string, j) = InputArn(yaml_string, i) \o ArnTail

RECURSIVE RepeatsKey(_)
\* a mapping node of the document, at any nesting level, has one key twice
RepeatsKey(node) ==
    /\ node.tag = "map"
    /\ \/ ~DistinctKeys(node.value)
       \/ \E i \in 1..Len(node.value) :
             RepeatsKey(node.value[i][1]) \/ RepeatsKey(node.value[i][2])

\* C5: if a mapping node of the input, at any nesting level, holds one key
\* twice, parsing fails at the second occurrence, before the value of that key
\* is built, and the call returns None without running the binder or the
\* validator; the later value never replaces the earlier one.
C5_RepeatedKeyRejectedByParser ==
    (pc = "done" /\ RepeatsKey(yaml_string)) =>
        /\ FailedWith("MarkedYAMLError")
        /\ error_log[1].stage = "parse"
        /\ stages_run = {"parse"}

\* C6: for a well-typed input with no identifier collision and no repeated
\* non-null port the call returns a config with as many entries as the input:
\* every 7-segment identifier X under X:$LATEST and no longer under X, every
\* other identifier under itself, every entry with the settings of its record
\* (the port as given, None when null or omitted; the timeout flag as given,
\* False when omitted).
C6_ValidInputKept ==
    (DoneWellTyped /\ CollidingAt(yaml_string) = {}
         /\ RepeatedPorts(yaml_string) = {}) =>
        /\ returned.kind = "config"
        /\ error_log = <<>>
        /\ Len(returned.functions) = Len(InputEntries(yaml_string))
        /\ \A i \in 1..Len(InputEntries(yaml_string)) :
              LET arn == InputArn(yaml_string, i) IN
              /\ DictHas(returned.functions, QualifiedKey(arn))
              /\ DictGet(returned.functions, QualifiedKey(arn))
                     = InputSettings(InputEntries(yaml_string)[i][2])
              /\ HasSevenSegments(arn) => ~DictHas(returned.functions, arn)

\* C6 witness: a config was returned for a 7-segment identifier with a port
\* and a timeout flag beside an identifier that is kept as it is
C6_Witness ==
    /\ DoneWellTyped
    /\ returned.kind = "config"
    /\ Len(returned.functions) >= 2
    /\ \E i \in 1..Len(InputEntries(yaml_string)) :
          /\ HasSevenSegments(InputArn(yaml_string, i))
          /\ DictHas(returned.functions, InputArn(yaml_string, i) \o ArnTail)
          /\ DictGet(returned.functions, InputArn(yaml_string, i) \o ArnTail)
                 = [debug_port |-> PyInt(1), timeout_disable |-> TRUE]
    /\ \E i \in 1..Len(InputEntries(yaml_string)) :
          /\ ~HasSevenSegments(InputArn(yaml_string, i))
          /\ DictHas(returned.functions, InputArn(yaml_string, i))

\* the config the binder builds from a well-typed document
BoundEntries(doc) ==
    [i \in 1..Len(InputEntries(doc)) |->
        <<InputArn(doc, i), InputSettings(InputEntries(doc)[i][2])>>]
\* the entries in the order p
Reordered(entries, p) == [i \in 1..Len(entries) |-> entries[p[i]]]
\* the orders the entries of a well-typed document can be written in
Orders(doc) == Permutations(1..Len(InputEntries(doc)))
\* validate on the given ordering ends as the call on yaml_string did, up to
\* what the failure reports when sameReport is FALSE
EndsAsTheCallDid(functions, sameReport) ==
    LET r == validate_lambda_debug_mode_config(functions) IN
    IF returned.kind = "config"
    THEN /\ r.exc = "none"
         /\ {r.val[i] : i \in 1..Len(r.val)}
                = {returned.functions[i] : i \in 1..Len(returned.functions)}
    ELSE /\ Len(error_log) = 1
         /\ r.exc = error_log[1].exc
         /\ sameReport => r.about = error_log[1].about

\* C9, as claimed: for two orderings of the same entries validate succeeds on
\* both with the same key-to-settings map, or fails on both with the same
\* failure: the same kind and the same reported port or identifier pair.
C9_AsClaimed ==
    DoneWellTyped =>
        LET entries == BoundEntries(yaml_string) IN
        \A p \in Orders(yaml_string) :
            EndsAsTheCallDid(Reordered(entries, p), TRUE)

\* C9, amended: for two orderings of the same entries validate succeeds on
\* both with the same key-to-settings map, or fails on both with the same kind
\* of failure; the reported identifier pair is the same when one identifier
\* only collides, the reported port is the same when no identifier collides
\* and one port only is repeated, and otherwise the report is that of the
\* conflict the order puts first.
C9_OrderDecidesOnlyTheReport ==
    DoneWellTyped =>
        LET entries == BoundEntries(yaml_string)
            oneConflict ==
                \/ Cardinality(CollidingAt(yaml_string)) = 1
                \/ /\ CollidingAt(yaml_string) = {}
                   /\ Cardinality(RepeatedPorts(yaml_string)) = 1
        IN  \A p \in Orders(yaml_string) :
                EndsAsTheCallDid(Reordered(entries, p), oneConflict)

\* C9 witness: a call on three entries or more, one of them rewritten, that
\* failed on a port which another order of the entries meets at another entry
C9_Witness ==
    /\ DoneWellTyped
    /\ Len(InputEntries(yaml_string)) >= 3
    /\ FailedWith("PortAlreadyInUse")
    /\ \E i \in 1..Len(InputEntries(yaml_string)) :
          HasSevenSegments(InputArn(yaml_string, i))
    /\ \E p \in Orders(yaml_string) :
          /\ p[1] # 1
          /\ validate_lambda_debug_mode_config(
                 Reordered(BoundEntries(yaml_string), p)).exc = "PortAlreadyInUse"

\* C10: normalization and collision detection are over for every key before
\* the first port is checked: the port set is empty until all keys are
\* rewritten, so an input with an identifier collision and a repeated non-null
\* port fails with DuplicateLambdaDebugConfig, never with PortAlreadyInUse.
C10_KeysBeforePorts ==
    /\ (ports_used # {} \/ port_index > 1 \/ pc \in {"ports", "return"}) =>
           /\ arn_index > Len(lambda_arns)
           /\ \A i \in 1..Len(config_functions) :
                 ~HasSevenSegments(config_functions[i][1])
    /\ (DoneWellTyped /\ CollidingAt(yaml_string) # {}
            /\ RepeatedPorts(yaml_string) # {}) =>
           FailedWith("DuplicateLambdaDebugConfig")

\* C10 witness: the input has a collision and a repeated port, the repeated
\* port comes before the colliding identifier, and the call failed on the
\* identifier with no port recorded
C10_Witness ==
    /\ DoneWellTyped
    /\ RepeatedPorts(yaml_string) # {}
    /\ FailedWith("DuplicateLambdaDebugConfig")
    /\ ports_used = {}
    /\ \A i \in CollidingAt(yaml_string) : i >= 3
    /\ InputPort(yaml_string, 1).type = "int"
    /\ InputPort(yaml_string, 1) = InputPort(yaml_string, 2)

====
